---- MODULE Spec2Model ----
(***************************************************************************)
(* The live-state client of the dashboard: the useBotStream hook of        *)
(* src/hooks/use-bot-stream.ts, as a state machine.  One action per        *)
(* handler: the effect body (start), the effect cleanup (stop), the four   *)
(* WebSocket callbacks, the reconnect timer callback and the three         *)
(* continuations of fetchInitialState.                                     *)
(***************************************************************************)
EXTENDS Integers, Sequences, FiniteSets, TLC

\* ------------------------------------------------------------------ bounds
\* SpecConn: the connection alone
MaxSockets == 4      \* WebSocket objects created in one run
MaxTimers == 3       \* reconnect timers created in one run
MaxFetches == 2      \* fetchInitialState calls in one run
\* Spec: the connection with the frames and the fallback
MaxViewSockets == 2
MaxViewTimers == 1
MaxViewFetches == 1
\* SpecFeed: one transport and its frames
MaxFeed == 52        \* trades plus actions received in one run
\* SpecMsg: one transport and every kind of frame
MaxSnapshot == 51    \* entries of the longest list a snapshot carries
MaxMsgFeed == 3      \* trades plus actions received in one run
\* SpecRoutes: the API routes
MaxLog == 52         \* entries of the longest actions log
\* SpecDex: the useDexScreener hook
MaxRequests == 2     \* requests of one route awaiting their read at once
MaxDexFetches == 5   \* calls of refetch in flight at once

\* what one run may create: sockets, timers, fetchInitialState calls
ConnCaps == [sockets |-> MaxSockets, timers |-> MaxTimers, fetches |-> MaxFetches]
ViewCaps == [sockets |-> MaxViewSockets, timers |-> MaxViewTimers,
             fetches |-> MaxViewFetches]

\* ------------------------------------------------------- program constants
RECONNECT_DELAY == 3000
MAX_RECONNECT_DELAY == 30000
\* prev.slice(-49) of the trades, prev.slice(0, 49) of the actions
TRADES_KEPT == 49
ACTIONS_KEPT == 49
\* actions.slice(-50) of the actions route
ACTIONS_SERVED == 50
\* .slice(0, 15) of the NeuralStream
STREAM_SHOWN == 15

\* Delays are held in quarter milliseconds, so that every value the code
\* computes (3000, 4500, 6750, 10125, 15187.5, 22781.25, 30000) is an integer.
Ms(x) == 4 * x

ERR == "Failed to connect to bot"
NoError == "null"
NoState == [null |-> TRUE]

\* ----------------------------------------------------------- JavaScript
Min(a, b) == IF a <= b THEN a ELSE b
Max(a, b) == IF a >= b THEN a ELSE b

\* Array.prototype.slice(start, end): negative indices count from the end,
\* both are clamped to [0, length]; the result is s[start .. end-1] (0-based).
RelIndex(len, k) == IF k < 0 THEN Max(len + k, 0) ELSE Min(k, len)
Slice(s, start, end) ==
    LET from == RelIndex(Len(s), start)
        to == RelIndex(Len(s), end)
    IN  IF to <= from THEN << >> ELSE SubSeq(s, from + 1, to)
\* slice(start) with no end
SliceFrom(s, start) == Slice(s, start, Len(s))

\* faulty variant, used to show the property below is sensitive: the update replaces the state
SpreadKeepsNothing(prev, update) == update

\* { ...prev, ...update }
Spread(prev, update) ==
    [f \in (DOMAIN prev) \cup (DOMAIN update) |->
        IF f \in DOMAIN update THEN update[f] ELSE prev[f]]

\* Math.min(reconnectDelayRef.current * 1.5, MAX_RECONNECT_DELAY), on quarter ms
NextDelay(d) ==
    IF 3 * d >= 2 * Ms(MAX_RECONNECT_DELAY)
    THEN Ms(MAX_RECONNECT_DELAY)
    ELSE (3 * d) \div 2

\* ------------------------------------------------------------- the inputs
StreamStates ==
    { [totalBuys |-> 5, totalSells |-> 1], [totalBuys |-> 7, totalSells |-> 1] }
FallbackStates ==
    { [totalBuys |-> 2, totalSells |-> 0], [totalBuys |-> 3, totalSells |-> 0] }
Updates == { [totalBuys |-> 5], [totalSells |-> 4], [totalBuys |-> 7, totalSells |-> 1] }
\* A Trade or a BotAction, told from the others by its number.  The entries of a
\* snapshot (recent_trades, recent_actions) are numbered from 101, those of
\* /api/actions from 201, and the entry of the n-th frame delivered is n.
Entry(n) == [id |-> n]
Absent == << [undefined |-> TRUE] >>
NoData == [null |-> TRUE]
SnapLists == { << >>, << Entry(101), Entry(102) >> }
\* a list of MaxSnapshot entries, as a snapshot may carry
LongList == [k \in 1 .. MaxSnapshot |-> Entry(100 + k)]
FallbackLists == { << >>, << Entry(201), Entry(202) >> }
\* faulty variant, used to show the property below is sensitive: a missing list stays missing
OrNeverDefaults(list, default) == list

\* list || default
Or(list, default) == IF list = Absent THEN default ELSE list

VARIABLES
    mounted,              \* mountedRef.current
    effectOn,             \* the effect is set up (its cleanup has not run)
    isConnected, state, trades, actions, error,    \* the view (useState)
    wsRef,                \* wsRef.current: 0 is null, else an index of sock
    sock,                 \* every WebSocket created, in creation order
    timers,               \* every reconnect timer created, in creation order
    reconnectTimeoutRef,  \* reconnectTimeoutRef.current: 0 is null
    reconnectDelay,       \* reconnectDelayRef.current, in quarter ms
    fetches,              \* every call of fetchInitialState, with its position
    tradeLog, actionLog,  \* history: the entries received, in arrival order
    fails,                \* history: closes of the current transport since the last
                          \* open (all), and since the last open or start (session)
    everStopped,          \* history: the cleanup has run at least once
    everOpened,           \* history: a transport has opened at least once
    fellBack,             \* history: a fallback response has set state
    stateSrc,             \* history: who wrote state last
    last,                 \* history: the handler that ran last
    route,                \* the request an API route served last, and its response
    dex                   \* the useDexScreener hook: its state and its fetches

vars == << mounted, effectOn, isConnected, state, trades, actions, error, wsRef,
           sock, timers, reconnectTimeoutRef, reconnectDelay, fetches,
           tradeLog, actionLog, fails, everStopped, everOpened, fellBack,
           stateSrc, last, route, dex >>

view == << isConnected, state, trades, actions, error >>
hist == << tradeLog, actionLog, fails, everStopped, everOpened, fellBack,
          stateSrc >>

\* data: the state a snapshot or a fallback response carried, or the fields an
\* update carried; raised: "none", or "caught" when the handler's own try/catch
\* swallowed an exception; before: the state an update found; frame: the data
\* of a snapshot; held: a snapshot found trades and actions in the view
Ran(op) ==
    [op |-> op, data |-> NoState, raised |-> "none", before |-> NoState,
     frame |-> NoData, held |-> FALSE]

\* no request has been served
NoRequest == [endpoint |-> "none", pending |-> [actions |-> 0, bot |-> 0]]

\* src/unnamed/part_002, lines 36-39: useState initial values; fetches: the
\* calls of refetch that await getTokenMetrics
NoMetrics == [null |-> TRUE]
NewDex == [loading |-> FALSE, error |-> NoError, metrics |-> NoMetrics, fetches |-> 0]

\* the hook of the live state, with the routes and the other hook left alone
hook == << mounted, effectOn, isConnected, state, trades, actions, error, wsRef,
           sock, timers, reconnectTimeoutRef, reconnectDelay, fetches,
           tradeLog, actionLog, fails, everStopped, everOpened, fellBack,
           stateSrc, last >>

\* lines 56-65: useState/useRef initial values
Init ==
    /\ mounted = TRUE
    /\ effectOn = FALSE
    /\ isConnected = FALSE
    /\ state = NoState
    /\ trades = << >>
    /\ actions = << >>
    /\ error = NoError
    /\ wsRef = 0
    /\ sock = << >>
    /\ timers = << >>
    /\ reconnectTimeoutRef = 0
    /\ reconnectDelay = Ms(RECONNECT_DELAY)
    /\ fetches = << >>
    /\ tradeLog = << >>
    /\ actionLog = << >>
    /\ fails = [all |-> 0, session |-> 0]
    /\ everStopped = FALSE
    /\ everOpened = FALSE
    /\ fellBack = FALSE
    /\ stateSrc = "none"
    /\ last = Ran("init")
    /\ route = NoRequest
    /\ dex = NewDex

\* ------------------------------------------------------------- WebSocket
\* WebSocket.close(): a connecting socket fails (error, then close, are still
\* to be fired), an open one starts closing (close is still to be fired);
\* on a closing or closed socket it does nothing.
WsClose(sk, i) ==
    IF i = 0 THEN sk
    ELSE [sk EXCEPT ![i].st =
            CASE @ = "connecting" -> "failing"
              [] @ = "open" -> "closing"
              [] OTHER -> @]

\* st: "connecting", "open", "failing" (error and close are still to be fired),
\* "closing" (close is still to be fired), "closed".  History: opened, until
\* the socket is closed.
NewSocket == [st |-> "connecting", opened |-> FALSE]
ClosedSocket == [st |-> "closed", opened |-> FALSE]
\* pc: "pending" (awaiting Promise.all), "botJson" (awaiting botRes.json()),
\* "actJson" (awaiting actionsRes.json()), "done"; actOk: actionsRes.ok
NewFetch == [pc |-> "pending", actOk |-> FALSE]
DoneFetch == [pc |-> "done", actOk |-> FALSE]

\* connect(), lines 93-186.  throws: new WebSocket(WS_URL) throws.  The result
\* is the new value of everything connect() writes; callFetch says whether the
\* catch block called fetchInitialState().
connect(m, throws) ==
    IF ~m
    THEN [sock |-> sock, wsRef |-> wsRef, error |-> error, callFetch |-> FALSE]
    ELSE LET closedPrev == WsClose(sock, wsRef)
         IN  IF throws
             THEN [sock |-> closedPrev, wsRef |-> wsRef, error |-> ERR,
                   callFetch |-> TRUE]
             ELSE [sock |-> Append(closedPrev, NewSocket),
                   wsRef |-> Len(sock) + 1, error |-> error,
                   callFetch |-> FALSE]

CallFetch(fs, call) == IF call THEN Append(fs, NewFetch) ELSE fs

\* the effect body, lines 188-195
Start(throws, caps) ==
    /\ ~effectOn
    /\ throws \/ Len(sock) < caps.sockets
    /\ Len(fetches) + (IF throws THEN 2 ELSE 1) <= caps.fetches
    /\ LET c == connect(TRUE, throws)
       IN  /\ sock' = c.sock
           /\ wsRef' = c.wsRef
           /\ error' = c.error
           /\ fetches' = CallFetch(CallFetch(fetches, c.callFetch), TRUE)
    /\ mounted' = TRUE
    /\ effectOn' = TRUE
    /\ fails' = [fails EXCEPT !.session = 0]
    /\ last' = Ran("start")
    /\ UNCHANGED << isConnected, state, trades, actions, timers,
                    reconnectTimeoutRef, reconnectDelay, tradeLog, actionLog,
                    everStopped, everOpened, fellBack, stateSrc >>
    /\ UNCHANGED << route, dex >>

\* A timer that has expired or was cleared is dead: its id stays, nothing else.
DeadTimer == [st |-> "dead", delay |-> 0, nth |-> 0, nthSession |-> 0, afterOpen |-> FALSE]
\* setTimeout(callback, d).  History: nth and nthSession, when the close of the
\* current transport scheduled the timer, the number of closes of the current
\* transport since the last open (nthSession: or start), this one included (0:
\* the close of another socket scheduled it); afterOpen, whether the socket
\* whose close scheduled it had opened.
NewTimer(d, n, opened) ==
    [st |-> "pending", delay |-> d, nth |-> n.all, nthSession |-> n.session,
     afterOpen |-> opened]

\* clearTimeout(id)
ClearTimeout(ts, id) ==
    IF id # 0 /\ ts[id].st = "pending" THEN [ts EXCEPT ![id] = DeadTimer] ELSE ts

\* the effect cleanup, lines 197-205
Stop ==
    /\ effectOn
    /\ mounted' = FALSE
    /\ timers' = ClearTimeout(timers, reconnectTimeoutRef)
    /\ sock' = WsClose(sock, wsRef)
    /\ effectOn' = FALSE
    /\ everStopped' = TRUE
    /\ last' = Ran("stop")
    /\ UNCHANGED << view, wsRef, reconnectTimeoutRef, reconnectDelay, fetches,
                    tradeLog, actionLog, fails, everOpened, fellBack, stateSrc >>
    /\ UNCHANGED << route, dex >>

\* ws.onopen, lines 105-111
OnOpen(i) ==
    /\ sock[i].st = "connecting"
    /\ sock' = [sock EXCEPT ![i] = [st |-> "open", opened |-> TRUE]]
    /\ IF mounted
       THEN /\ isConnected' = TRUE
            /\ error' = NoError
            /\ reconnectDelay' = Ms(RECONNECT_DELAY)
            /\ fails' = [all |-> 0, session |-> 0]
       ELSE UNCHANGED << isConnected, error, reconnectDelay, fails >>
    /\ everOpened' = TRUE
    /\ last' = Ran("open")
    /\ UNCHANGED << mounted, effectOn, state, trades, actions, wsRef, timers,
                    reconnectTimeoutRef, fetches, tradeLog, actionLog,
                    everStopped, fellBack, stateSrc >>
    /\ UNCHANGED << route, dex >>

\* ws.onerror, lines 175-178: the transport failed (while connecting or open),
\* or close() was called before the connection was established
OnError(i) ==
    /\ sock[i].st \in { "connecting", "open", "failing" }
    /\ sock' = [sock EXCEPT ![i].st = "closing"]
    /\ error' = ERR
    /\ last' = Ran("error")
    /\ UNCHANGED << mounted, effectOn, isConnected, state, trades, actions, wsRef,
                    timers, reconnectTimeoutRef, reconnectDelay, fetches, hist >>
    /\ UNCHANGED << route, dex >>

Failed(n) == [all |-> n.all + 1, session |-> n.session + 1]

\* faulty variant, used to show the property below is sensitive: the close handler clears the view
OnCloseClears(i, caps) ==
    /\ sock[i].st \in { "closing", "open" }
    /\ ~mounted \/ Len(timers) < caps.timers
    /\ sock' = [sock EXCEPT ![i] = ClosedSocket]
    /\ IF mounted
       THEN /\ isConnected' = FALSE
            /\ state' = NoState
            /\ trades' = << >>
            /\ actions' = << >>
            /\ timers' = Append(timers,
                   NewTimer(reconnectDelay, [all |-> 0, session |-> 0], sock[i].opened))
            /\ reconnectTimeoutRef' = Len(timers) + 1
       ELSE UNCHANGED << isConnected, state, trades, actions, timers,
                         reconnectTimeoutRef >>
    /\ last' = Ran("close")
    /\ UNCHANGED << mounted, effectOn, error, wsRef, reconnectDelay, fetches,
                    hist, route, dex >>

\* ws.onclose, lines 158-173: after an error, after close(), or the server
\* closing an open connection
OnClose(i, caps) ==
    /\ sock[i].st \in { "closing", "open" }
    /\ ~mounted \/ Len(timers) < caps.timers
    /\ sock' = [sock EXCEPT ![i] = ClosedSocket]
    /\ IF mounted
       THEN /\ isConnected' = FALSE
            /\ timers' = Append(timers,
                   NewTimer(reconnectDelay,
                            IF i = wsRef THEN Failed(fails)
                            ELSE [all |-> 0, session |-> 0],
                            sock[i].opened))
            /\ reconnectTimeoutRef' = Len(timers) + 1
            /\ fails' = IF i = wsRef THEN Failed(fails) ELSE fails
       ELSE UNCHANGED << isConnected, timers, reconnectTimeoutRef, fails >>
    /\ last' = Ran("close")
    /\ UNCHANGED << mounted, effectOn, state, trades, actions, error, wsRef,
                    reconnectDelay, fetches, tradeLog, actionLog,
                    everStopped, everOpened, fellBack, stateSrc >>
    /\ UNCHANGED << route, dex >>

\* the setTimeout callback, lines 164-172
TimerFire(t, throws, caps) ==
    /\ timers[t].st = "pending"
    /\ ~mounted \/ throws \/ Len(sock) < caps.sockets
    /\ ~mounted \/ ~throws \/ Len(fetches) < caps.fetches
    /\ timers' = [timers EXCEPT ![t] = DeadTimer]
    /\ reconnectDelay' = IF mounted THEN NextDelay(reconnectDelay) ELSE reconnectDelay
    /\ LET c == connect(mounted, throws)
       IN  /\ sock' = c.sock
           /\ wsRef' = c.wsRef
           /\ error' = c.error
           /\ fetches' = CallFetch(fetches, c.callFetch)
    /\ last' = Ran("timer")
    /\ UNCHANGED << mounted, effectOn, isConnected, state, trades, actions,
                    reconnectTimeoutRef, hist >>
    /\ UNCHANGED << route, dex >>

\* ------------------------------------------------------------- the frames
\* The frames the server may send: a snapshot, carrying one of the lists snaps
\* as its recent trades and one as its recent actions, and an update among
\* updates; the next trade, numbered nt, and the next action, numbered na; a
\* heartbeat reply, and a type the client does not know.
SnapshotFrames(snaps) ==
    { [type |-> "initial_state",
       data |-> [state |-> s, recent_trades |-> ts, recent_actions |-> as]] :
          s \in StreamStates, ts \in snaps, as \in snaps }
UpdateFrames(updates) == { [type |-> "state_update", data |-> u] : u \in updates }
EntryFrames(nt, na) ==
    { [type |-> "trade", data |-> Entry(nt)], [type |-> "action", data |-> Entry(na)] }
OtherFrames == { [type |-> t, data |-> NoData] : t \in { "pong", "ping" } }

\* the switch of ws.onmessage, lines 118-152, on the parsed message: the new
\* state, trades and actions
\* faulty variant, used to show the property below is sensitive: the snapshot's state is read from a field the message does not have
SnapshotDropsState(data) ==
    [state |-> NoState,
     trades |-> Or(data.recent_trades, << >>),
     actions |-> Or(data.recent_actions, << >>)]

\* case 'initial_state', lines 119-129
Snapshot(data) ==
    [state |-> data.state,
     trades |-> Or(data.recent_trades, << >>),
     actions |-> Or(data.recent_actions, << >>)]

\* faulty variant, used to show the property below is sensitive: slice(-50), one entry too many is kept
PushTradeKeepsFifty(prev, trade) == Append(SliceFrom(prev, 0 - 50), trade)

\* case 'trade', line 133: [...prev.slice(-49), trade]
PushTrade(prev, trade) == Append(SliceFrom(prev, 0 - TRADES_KEPT), trade)

\* faulty variant, used to show the property below is sensitive: slice(-49), the newest entries are evicted instead of the oldest
PushActionEvictsNewest(prev, action) == << action >> \o SliceFrom(prev, 0 - 49)

\* case 'action', line 139: [action, ...prev.slice(0, 49)]
PushAction(prev, action) == << action >> \o Slice(prev, 0, ACTIONS_KEPT)

\* faulty variant, used to show the property below is sensitive: an update creates the state
MergeUpdateCreates(prev, update) == Spread(prev, update)

\* case 'state_update', line 145: prev ? { ...prev, ...update } : null
MergeUpdate(prev, update) == IF prev # NoState THEN Spread(prev, update) ELSE NoState

\* faulty variant, used to show the property below is sensitive: a default branch that resets the view
UnhandledResets(st, tr, ac) == [state |-> NoState, trades |-> << >>, actions |-> << >>]

\* case 'pong', and a type no case matches: the switch sets nothing
Unhandled(st, tr, ac) == [state |-> st, trades |-> tr, actions |-> ac]

Dispatch(message, st, tr, ac) ==
    CASE message.type = "initial_state" -> Snapshot(message.data)
      [] message.type = "trade" ->
            [state |-> st, trades |-> PushTrade(tr, message.data), actions |-> ac]
      [] message.type = "action" ->
            [state |-> st, trades |-> tr, actions |-> PushAction(ac, message.data)]
      [] message.type = "state_update" ->
            [state |-> MergeUpdate(st, message.data), trades |-> tr, actions |-> ac]
      [] message.type = "pong" -> Unhandled(st, tr, ac)
      [] OTHER -> Unhandled(st, tr, ac)

Reverse(s) == [k \in 1 .. Len(s) |-> s[Len(s) + 1 - k]]

\* ws.onmessage, lines 113-156.  limit bounds the trades and actions of a run.
OnMessage(i, frame, limit) ==
    /\ sock[i].st = "open"
    /\ frame.type \in { "trade", "action" } => Len(tradeLog) + Len(actionLog) < limit
    /\ IF ~mounted
       THEN /\ UNCHANGED << state, trades, actions, tradeLog, actionLog, stateSrc >>
            /\ last' = Ran("unmounted")
       ELSE LET d == Dispatch(frame, state, trades, actions)
            IN  /\ state' = d.state
                /\ trades' = d.trades
                /\ actions' = d.actions
                /\ tradeLog' =
                     CASE frame.type = "initial_state" -> d.trades
                       [] frame.type = "trade" -> Append(tradeLog, frame.data)
                       [] OTHER -> tradeLog
                /\ actionLog' =
                     CASE frame.type = "initial_state" -> Reverse(d.actions)
                       [] frame.type = "action" -> Append(actionLog, frame.data)
                       [] OTHER -> actionLog
                /\ stateSrc' =
                     IF frame.type = "initial_state" THEN "stream" ELSE stateSrc
                /\ last' = [Ran(frame.type) EXCEPT
                              !.data =
                                 CASE frame.type = "initial_state" -> frame.data.state
                                   [] frame.type = "state_update" -> frame.data
                                   [] OTHER -> NoState,
                              !.before =
                                 IF frame.type = "state_update" THEN state ELSE NoState,
                              !.frame =
                                 IF frame.type = "initial_state" THEN frame.data ELSE NoData,
                              !.held =
                                 /\ frame.type = "initial_state"
                                 /\ trades # << >>
                                 /\ actions # << >>]
    /\ UNCHANGED << mounted, effectOn, isConnected, error, wsRef, sock, timers,
                    reconnectTimeoutRef, reconnectDelay, fetches, fails,
                    everStopped, everOpened, fellBack >>
    /\ UNCHANGED << route, dex >>

\* --------------------------------------------------- frames of no message
\* event.data of frames that carry no message the switch can dispatch: text
\* that is no JSON, JSON that is no object, and a snapshot with no data
Payloads ==
    { "", "{\"type\":", "pong", "null", "42", "\"pong\"", "[]",
      "{\"type\":\"initial_state\"}" }

JsNull == [null |-> TRUE]
JsUndefined == [undefined |-> TRUE]

\* JSON.parse(text), line 116: the value, or a SyntaxError
JsonParse(text) ==
    CASE text = "null" -> [threw |-> FALSE, value |-> JsNull]
      [] text = "42" -> [threw |-> FALSE, value |-> [number |-> 42]]
      [] text = "\"pong\"" -> [threw |-> FALSE, value |-> [string |-> "pong"]]
      [] text = "[]" -> [threw |-> FALSE, value |-> [array |-> << >>]]
      [] text = "{\"type\":\"initial_state\"}" ->
            [threw |-> FALSE, value |-> [object |-> [type |-> "initial_state"]]]
      [] OTHER -> [threw |-> TRUE, value |-> JsUndefined]

\* value.name: a TypeError on null and undefined, the property of an object
\* that has it, undefined otherwise
Get(value, name) ==
    CASE value \in { JsNull, JsUndefined } -> [threw |-> TRUE, value |-> JsUndefined]
      [] "object" \in DOMAIN value /\ name \in DOMAIN value.object ->
            [threw |-> FALSE, value |-> [string |-> value.object[name]]]
      [] OTHER -> [threw |-> FALSE, value |-> JsUndefined]

\* faulty variant, used to show the property below is sensitive: the catch block resets the view
HandlePayloadResets(text, st, tr, ac) ==
    [state |-> NoState, trades |-> << >>, actions |-> << >>, raised |-> "caught"]

\* lines 115-155 on such a frame: the try block up to the first exception, and
\* the catch block, which logs
HandlePayload(text, st, tr, ac) ==
    LET kept == [state |-> st, trades |-> tr, actions |-> ac, raised |-> "none"]
        caught == [kept EXCEPT !.raised = "caught"]
        message == JsonParse(text)
        type == Get(message.value, "type")
    IN  CASE message.threw -> caught
          [] type.threw -> caught
          [] type.value = [string |-> "initial_state"] ->
                \* setState(data.state) reads a property of message.data
                IF Get(Get(message.value, "data").value, "state").threw
                THEN caught ELSE kept
          [] OTHER -> Unhandled(st, tr, ac) @@ [raised |-> "none"]

\* ws.onmessage, lines 113-156, on a frame of Payloads
OnPayload(i, text) ==
    /\ sock[i].st = "open"
    /\ IF ~mounted
       THEN /\ UNCHANGED << state, trades, actions >>
            /\ last' = Ran("unmounted")
       ELSE LET d == HandlePayload(text, state, trades, actions)
            IN  /\ state' = d.state
                /\ trades' = d.trades
                /\ actions' = d.actions
                /\ last' = [Ran("malformed") EXCEPT !.raised = d.raised]
    /\ UNCHANGED << mounted, effectOn, isConnected, error, wsRef, sock, timers,
                    reconnectTimeoutRef, reconnectDelay, fetches, hist >>
    /\ UNCHANGED << route, dex >>

\* ------------------------------------------------------ fetchInitialState
\* lines 70-73: Promise.all settles.  rejects: one of the two requests failed
\* at the network, and the catch block ends the call; else the responses are
\* botRes (ok or not) and actionsRes (ok or not).
FetchSettle(f, rejects, botOk, actOk) ==
    /\ fetches[f].pc = "pending"
    /\ fetches' = [fetches EXCEPT ![f] =
            CASE rejects -> DoneFetch
              [] botOk -> [pc |-> "botJson", actOk |-> actOk]
              [] actOk -> [pc |-> "actJson", actOk |-> TRUE]
              [] OTHER -> DoneFetch]
    /\ last' = [Ran("fetchSettle") EXCEPT !.raised = IF rejects THEN "caught" ELSE "none"]
    /\ UNCHANGED << mounted, effectOn, view, wsRef, sock, timers,
                    reconnectTimeoutRef, reconnectDelay, hist >>
    /\ UNCHANGED << route, dex >>

\* lines 77-79: if (botData.state) setState(botData.state)
ApplyBot(st, botState) == IF botState # NoState THEN botState ELSE st

\* lines 84-86: if (actionsData.actions) setActions(actionsData.actions)
ApplyActions(ac, list) == IF list # Absent THEN list ELSE ac

\* lines 76-79: botRes.json() settles.  throws: the body does not parse, and
\* the catch block ends the call; else botData.state is botState (NoState: null)
FetchBotJson(f, throws, botState) ==
    /\ fetches[f].pc = "botJson"
    /\ fetches' = [fetches EXCEPT ![f] =
            IF ~throws /\ fetches[f].actOk
            THEN [pc |-> "actJson", actOk |-> TRUE] ELSE DoneFetch]
    /\ IF ~throws /\ botState # NoState
       THEN /\ state' = ApplyBot(state, botState)
            /\ stateSrc' = "fallback"
            /\ fellBack' = TRUE
            /\ last' = [Ran("fetchBot") EXCEPT !.data = botState]
       ELSE /\ UNCHANGED << state, stateSrc, fellBack >>
            /\ last' = [Ran("fetchBot") EXCEPT
                           !.raised = IF throws THEN "caught" ELSE "none"]
    /\ UNCHANGED << mounted, effectOn, isConnected, trades, actions, error, wsRef,
                    sock, timers, reconnectTimeoutRef, reconnectDelay,
                    tradeLog, actionLog, fails, everStopped, everOpened >>
    /\ UNCHANGED << route, dex >>

\* lines 83-86: actionsRes.json() settles.  throws: the body does not parse;
\* else actionsData.actions is list (Absent: undefined)
FetchActionsJson(f, throws, list) ==
    /\ fetches[f].pc = "actJson"
    /\ fetches' = [fetches EXCEPT ![f] = DoneFetch]
    /\ IF ~throws /\ list # Absent
       THEN /\ actions' = ApplyActions(actions, list)
            /\ actionLog' = Reverse(list)
       ELSE UNCHANGED << actions, actionLog >>
    /\ last' = [Ran("fetchActions") EXCEPT
                   !.raised = IF throws THEN "caught" ELSE "none"]
    /\ UNCHANGED << mounted, effectOn, isConnected, state, trades, error, wsRef,
                    sock, timers, reconnectTimeoutRef, reconnectDelay,
                    tradeLog, fails, everStopped, everOpened, fellBack, stateSrc >>
    /\ UNCHANGED << route, dex >>

\* ------------------------------------------------------------ the routes
\* The file a read finds on disk: absent (removed since existsSync saw it), or
\* there and unreadable, or there with a content: a text (read by JsonParse),
\* a list of entries or an object (the JSON text of which it stands for).
AbsentFile == [exists |-> FALSE]
UnreadableFile == [exists |-> TRUE, readable |-> FALSE]
TextFile(text) == [exists |-> TRUE, readable |-> TRUE, kind |-> "text", text |-> text]
ListFile(entries) ==
    [exists |-> TRUE, readable |-> TRUE, kind |-> "list", entries |-> entries]
ObjectFile(object) ==
    [exists |-> TRUE, readable |-> TRUE, kind |-> "object", object |-> object]

\* the texts a file may hold: no JSON, and JSON that is neither list nor object
FileTexts == { "", "{\"type\":", "null", "42", "\"pong\"" }

\* await readFile(file, 'utf-8') and JSON.parse(content): the value, or the
\* exception of the one (ENOENT of a file that is gone, or another error of
\* the read) or of the other
ReadJson(file) ==
    CASE ~file.exists -> [threw |-> TRUE, value |-> JsUndefined]
      [] ~file.readable -> [threw |-> TRUE, value |-> JsUndefined]
      [] file.kind = "list" -> [threw |-> FALSE, value |-> [array |-> file.entries]]
      [] file.kind = "object" -> [threw |-> FALSE, value |-> [object |-> file.object]]
      [] OTHER -> JsonParse(file.text)

\* The n-th entry of the actions log.  Every third entry has no details, and
\* the odd ones of a log with extras carry a field the client does not know.
LogEntry(n, extras) ==
    LET base == [timestamp |-> n, type |-> "analysis", description |-> "text"]
        more == IF n % 3 = 0 THEN base ELSE base @@ [details |-> "map"]
    IN  IF extras /\ n % 2 = 1 THEN more @@ [id |-> n] ELSE more
Log(n, extras) == [k \in 1 .. n |-> LogEntry(k, extras)]

\* src/app/api/actions/route.ts, lines 27-32, and the JSON of the response,
\* which has no undefined: the four fields of the entry that are there
Pick(action) ==
    [f \in { "timestamp", "type", "description", "details" } \cap DOMAIN action |->
        action[f]]

\* faulty variant, used to show the property below is sensitive: the entries are served in file order
RecentActionsInFileOrder(entries) == SliceFrom(entries, 0 - ACTIONS_SERVED)

\* route.ts, line 24: actions.slice(-50).reverse()
RecentActions(entries) == Reverse(SliceFrom(entries, 0 - ACTIONS_SERVED))

\* faulty variant, used to show the property below is sensitive: a content that is no list is served as an empty log
ActionsOfLenient(parsed) ==
    IF parsed.threw \/ "array" \notin DOMAIN parsed.value
    THEN [threw |-> FALSE, actions |-> << >>]
    ELSE [threw |-> FALSE,
          actions |-> [k \in DOMAIN RecentActions(parsed.value.array) |->
                          Pick(RecentActions(parsed.value.array)[k])]]

\* route.ts, lines 20-33, on what was read: the actions of the response, or
\* the exception (of the read, of the parse, or the TypeError of slice and
\* reverse on a value that is no list)
ActionsOf(parsed) ==
    IF parsed.threw \/ "array" \notin DOMAIN parsed.value
    THEN [threw |-> TRUE, actions |-> << >>]
    ELSE [threw |-> FALSE,
          actions |-> [k \in DOMAIN RecentActions(parsed.value.array) |->
                          Pick(RecentActions(parsed.value.array)[k])]]

\* route.ts, lines 13-16: the response when existsSync finds no file
ActionsNoFile ==
    [status |-> 200, body |-> [actions |-> << >>, message |-> "No actions logged yet"]]

\* route.ts, lines 20-39: the response once readFile has settled on file
ActionsResponse(file) ==
    LET r == ActionsOf(ReadJson(file))
    IN  IF r.threw
        THEN [status |-> 500, body |-> [actions |-> << >>, error |-> "String(error)"]]
        ELSE [status |-> 200, body |-> [actions |-> r.actions]]

\* what a read of the actions log may find: the file gone, unreadable, no
\* list, and the lists of up to MaxLog entries
ActionsFiles ==
    { AbsentFile, UnreadableFile } \cup { TextFile(t) : t \in FileTexts }
        \cup { ObjectFile([actions |-> "list"]) }
        \cup { ListFile(Log(n, x)) : n \in 0 .. MaxLog, x \in BOOLEAN }

\* GET of route.ts up to its await, lines 9-20: existsSync(ACTIONS_FILE)
\* returns exists; with no file the request is answered, else readFile is
\* issued and the handler returns to the event loop
ActionsGET(exists) ==
    /\ exists => route.pending.actions < MaxRequests
    /\ route' = IF ~exists
                THEN [endpoint |-> "actions", exists |-> FALSE,
                      response |-> ActionsNoFile, pending |-> route.pending]
                ELSE [route EXCEPT !.pending.actions = @ + 1]
    /\ UNCHANGED << hook, dex >>

\* GET of route.ts from its await on, lines 20-39: the read of a request
\* settles on file, the file as it is by then, and the request is answered
ActionsGETRead(file) ==
    /\ route.pending.actions > 0
    /\ route' = [endpoint |-> "actions", exists |-> TRUE, file |-> file,
                 response |-> ActionsResponse(file),
                 pending |-> [route.pending EXCEPT !.actions = @ - 1]]
    /\ UNCHANGED << hook, dex >>

\* src/unnamed/part_001, lines 106-150: the route of the bot state.
\* state.name: nothing when the value read has no such property, else the
\* property (a sequence of no or of one value)
Prop(object, name) == IF name \in DOMAIN object THEN << object[name] >> ELSE << >>

\* faulty variant, used to show the property below is sensitive: a missing property of the file is served as 0
PlainOrZero(object, name) ==
    IF name \in DOMAIN object THEN << object[name] >> ELSE << 0 >>

\* lines 124, 129-133, 138: state.name as it is; undefined is not in the JSON
Plain(object, name) == Prop(object, name)

\* lines 125-128, 134-137: state.name || 0
OrZero(object, name) ==
    IF Prop(object, name) = << >> \/ Prop(object, name) = << 0 >>
    THEN << 0 >> ELSE Prop(object, name)

\* line 139: state.analysis_mode || 'brief'
OrBrief(object, name) ==
    IF Prop(object, name) = << >> \/ Prop(object, name) = << "" >>
    THEN << "brief" >> ELSE Prop(object, name)

\* lines 123-140: the state of the response
BotStateOf(object) ==
    LET opt == [tokenAddress |-> Plain(object, "token_address"),
                totalBuys |-> OrZero(object, "total_buys"),
                totalSells |-> OrZero(object, "total_sells"),
                totalBuyVolume |-> OrZero(object, "total_buy_volume"),
                totalSellVolume |-> OrZero(object, "total_sell_volume"),
                lastPrice |-> Plain(object, "last_price"),
                highestPrice |-> Plain(object, "highest_price"),
                lowestPrice |-> Plain(object, "lowest_price"),
                lastMarketCap |-> Plain(object, "last_market_cap"),
                lastHolderCount |-> Plain(object, "last_holder_count"),
                lastCreatorRewardsAvailable |->
                    OrZero(object, "last_creator_rewards_available"),
                creatorRewards |-> OrZero(object, "creator_rewards"),
                totalAnalyses |-> OrZero(object, "total_analyses"),
                totalAlerts |-> OrZero(object, "total_alerts"),
                startTime |-> Plain(object, "start_time"),
                analysisMode |-> OrBrief(object, "analysis_mode")]
    IN  [f \in { g \in DOMAIN opt : opt[g] # << >> } |-> opt[f][1]]

\* the properties of a value read from the file: those of an object, none of
\* a number, a string or a list (null has none to ask for: a TypeError)
Props(value) == IF "object" \in DOMAIN value THEN value.object ELSE << >>

\* lines 118-141 on what was read: the state of the response, or the
\* exception (of the read, of the parse, or the TypeError of null.token_address)
BotRead(parsed) ==
    IF parsed.threw \/ parsed.value = JsNull
    THEN [threw |-> TRUE, state |-> JsNull]
    ELSE [threw |-> FALSE, state |-> BotStateOf(Props(parsed.value))]

\* lines 110-114: the response when existsSync finds no file
BotNoFile ==
    [status |-> 200,
     body |-> [connected |-> FALSE, state |-> JsNull,
               message |-> "Bot state file not found. Is the bot running?"]]

\* lines 118-148: the response once readFile has settled on file
BotResponse(file) ==
    LET r == BotRead(ReadJson(file))
    IN  IF r.threw
        THEN [status |-> 500,
              body |-> [connected |-> FALSE, message |-> "Error reading bot state",
                        error |-> "String(error)"]]
        ELSE [status |-> 200, body |-> [connected |-> TRUE, state |-> r.state]]

\* the properties of monitor_state.json
CounterProps ==
    { "total_buys", "total_sells", "total_buy_volume", "total_sell_volume",
      "last_creator_rewards_available", "creator_rewards", "total_analyses",
      "total_alerts" }
NullableProps ==
    { "last_price", "highest_price", "lowest_price", "last_market_cap",
      "last_holder_count", "start_time" }
TextProps == { "token_address", "analysis_mode" }

\* a state file with the properties names; zero: its counters are 0
BotObject(names, zero) ==
    [f \in names |->
        CASE f = "token_address" -> "mint"
          [] f = "analysis_mode" -> "full"
          [] f \in CounterProps -> IF zero THEN 0 ELSE 7
          [] OTHER -> 3]

\* what a read of the state file may find: the file gone, unreadable, no
\* object, and the objects that have some of the properties
BotFiles ==
    { AbsentFile, UnreadableFile } \cup { TextFile(t) : t \in FileTexts \cup { "[]" } }
        \cup { ObjectFile(BotObject(some \cup rest, zero)) :
                  some \in SUBSET { "total_buys", "last_price", "start_time", "analysis_mode" },
                  rest \in { { }, (CounterProps \cup NullableProps \cup TextProps) },
                  zero \in BOOLEAN }

\* GET of the bot state route up to its await, lines 106-118:
\* existsSync(STATE_FILE) returns exists; with no file the request is
\* answered, else readFile is issued and the handler returns to the event loop
BotGET(exists) ==
    /\ exists => route.pending.bot < MaxRequests
    /\ route' = IF ~exists
                THEN [endpoint |-> "bot", exists |-> FALSE,
                      response |-> BotNoFile, pending |-> route.pending]
                ELSE [route EXCEPT !.pending.bot = @ + 1]
    /\ UNCHANGED << hook, dex >>

\* GET of the bot state route from its await on, lines 118-148: the read of a
\* request settles on file, the file as it is by then, and the request is
\* answered
BotGETRead(file) ==
    /\ route.pending.bot > 0
    /\ route' = [endpoint |-> "bot", exists |-> TRUE, file |-> file,
                 response |-> BotResponse(file),
                 pending |-> [route.pending EXCEPT !.bot = @ - 1]]
    /\ UNCHANGED << hook, dex >>

\* ------------------------------------------------------- the NeuralStream
\* src/components/neural-stream.tsx, lines 11-17: the one message shown while
\* there is no action.  Its timestamp is the em dash, U+2014, written here as
\* its JSON escape.
fallbackMessages ==
    << [timestamp |-> "\\u2014", message |-> "Waiting for bot connection...",
        type |-> "system"] >>

\* lines 62-67: the actions, or, when there is none, the fallback messages as
\* actions, with the message as description and the empty object as details
displayActions(list) ==
    IF Len(list) > 0
    THEN list
    ELSE [i \in DOMAIN fallbackMessages |->
             [timestamp |-> fallbackMessages[i].timestamp,
              type |-> fallbackMessages[i].type,
              description |-> fallbackMessages[i].message,
              details |-> << >>]]

\* line 86: [...displayActions].reverse().slice(0, 15), the entries the
\* component renders, in the order it renders them
Rendered(list) == Slice(Reverse(displayActions(list)), 0, STREAM_SHOWN)

\* ------------------------------------------------------- useDexScreener
\* src/unnamed/part_002.  What getTokenMetrics(mint) may settle with: metrics,
\* null, metrics of a market cap of 0, an Error, or a value thrown that is no
\* Error.
TokenMetrics == { [marketCapUsd |-> 100], [marketCapUsd |-> 200], [marketCapUsd |-> 300] }
Outcomes ==
    { [kind |-> "metrics", metrics |-> m] :
         m \in TokenMetrics \cup { [marketCapUsd |-> 0] } }
      \cup { [kind |-> k, metrics |-> [marketCapUsd |-> 0]] :
                k \in { "null", "Error", "thrown" } }

\* refetch() up to its await, lines 41-52: called by the effect on mount, by
\* the interval, or by the component; hasMint: the mint option is set
refetch(hasMint) ==
    /\ hasMint => dex.fetches < MaxDexFetches
    /\ dex' = IF ~hasMint
              THEN [dex EXCEPT !.error = "No mint address provided"]
              ELSE [dex EXCEPT !.loading = TRUE, !.error = NoError,
                               !.fetches = @ + 1]
    /\ UNCHANGED << hook, route >>

\* refetch() from its await on, lines 52-70: getTokenMetrics settles with outcome
refetchSettle(outcome) ==
    /\ dex.fetches > 0
    /\ dex' = [dex EXCEPT
                 !.error =
                    CASE outcome.kind = "Error" -> "err.message"
                      [] outcome.kind = "thrown" -> "Failed to fetch data"
                      [] outcome.kind = "null" \/ outcome.metrics.marketCapUsd = 0 ->
                            "Token not found"
                      [] OTHER -> @,
                 !.metrics =
                    CASE outcome.kind \in { "Error", "thrown" } -> @
                      [] outcome.kind = "null" \/ outcome.metrics.marketCapUsd = 0 ->
                            NoMetrics
                      [] OTHER -> outcome.metrics,
                 !.loading = FALSE,
                 !.fetches = @ - 1]
    /\ UNCHANGED << hook, route >>

\* --------------------------------------------------------- specifications
\* The connection: start, stop, the transport's open, error and close, the timer.
Conn(caps) ==
    \/ \E throws \in BOOLEAN : Start(throws, caps)
    \/ Stop
    \/ \E i \in DOMAIN sock : OnOpen(i)
    \/ \E i \in DOMAIN sock : OnError(i)
    \/ \E i \in DOMAIN sock : OnClose(i, caps)
    \/ \E t \in DOMAIN timers, throws \in BOOLEAN : TimerFire(t, throws, caps)

NextConn == Conn(ConnCaps)

SpecConn == Init /\ [][NextConn]_vars

\* The feed: a transport that opens and delivers frames.
NextFeed ==
    \/ Start(FALSE, ConnCaps)
    \/ \E i \in DOMAIN sock : OnOpen(i)
    \/ \E i \in DOMAIN sock :
          \E frame \in SnapshotFrames(SnapLists \cup { Absent })
                        \cup UpdateFrames(Updates)
                        \cup EntryFrames(Len(tradeLog) + 1, Len(actionLog) + 1)
                        \cup OtherFrames :
             OnMessage(i, frame, MaxFeed)

SpecFeed == Init /\ [][NextFeed]_vars

\* The messages: a transport that opens and delivers frames of every kind,
\* among them snapshots with long lists and frames that are no message.
NextMsg ==
    \/ Start(FALSE, ConnCaps)
    \/ \E i \in DOMAIN sock : OnOpen(i)
    \/ \E i \in DOMAIN sock :
          \E frame \in SnapshotFrames(SnapLists \cup { Absent, LongList })
                        \cup UpdateFrames(Updates)
                        \cup EntryFrames(Len(tradeLog) + 1, Len(actionLog) + 1)
                        \cup OtherFrames :
             OnMessage(i, frame, MaxMsgFeed)
    \/ \E i \in DOMAIN sock : \E text \in Payloads : OnPayload(i, text)

SpecMsg == Init /\ [][NextMsg]_vars

\* The routes: requests of /api/actions and /api/bot, and the reads they
\* await, which settle in any order on whatever the files hold by then.
NextRoutes ==
    \/ \E exists \in BOOLEAN : ActionsGET(exists)
    \/ \E file \in ActionsFiles : ActionsGETRead(file)
    \/ \E exists \in BOOLEAN : BotGET(exists)
    \/ \E file \in BotFiles : BotGETRead(file)

SpecRoutes == Init /\ [][NextRoutes]_vars

\* The market data: calls of refetch and their completions, in any order.
NextDex ==
    \/ \E hasMint \in BOOLEAN : refetch(hasMint)
    \/ \E outcome \in Outcomes : refetchSettle(outcome)

SpecDex == Init /\ [][NextDex]_vars

\* The view: the connection, the fallback, and the snapshots and updates of
\* the stream.
Next ==
    \/ Conn(ViewCaps)
    \/ \E i \in DOMAIN sock :
          \E frame \in SnapshotFrames(SnapLists) \cup UpdateFrames({ [totalSells |-> 4] }) :
             OnMessage(i, frame, 0)
    \/ \E f \in DOMAIN fetches : \E rejects, botOk, actOk \in BOOLEAN :
          FetchSettle(f, rejects, botOk, actOk)
    \/ \E f \in DOMAIN fetches : \E throws \in BOOLEAN :
          \E botState \in FallbackStates \cup { NoState } :
             FetchBotJson(f, throws, botState)
    \/ \E f \in DOMAIN fetches : \E throws \in BOOLEAN :
          \E list \in FallbackLists \cup { Absent } :
             FetchActionsJson(f, throws, list)

Spec == Init /\ [][Next]_vars

\* ------------------------------------------------------------ the claims
\* the last n entries of s, in the order of s
LastN(s, n) == SubSeq(s, Max(Len(s) - n, 0) + 1, Len(s))

\* C1: after every trade message the trades list has at most 50 entries and is
\* the (up to) 50 most recently received trades, oldest first, newest last.
C1_TradesWindow ==
    last.op = "trade" =>
        /\ Len(trades) <= 50
        /\ trades = LastN(tradeLog, 50)

\* C1 happens: a trade arrived at a full list, and the oldest one was evicted
C1_Witness ==
    /\ last.op = "trade"
    /\ Len(tradeLog) > 50
    /\ Len(trades) = 50
    /\ trades[1] # tradeLog[1]

\* C2: after every action message the actions list has at most 50 entries and
\* is the (up to) 50 most recently received actions, newest first.
C2_ActionsWindow ==
    last.op = "action" =>
        /\ Len(actions) <= 50
        /\ actions = Reverse(LastN(actionLog, 50))

\* C2 happens: an action arrived at a full list, and the oldest one (the tail)
\* was evicted
C2_Witness ==
    /\ last.op = "action"
    /\ Len(actionLog) > 50
    /\ Len(actions) = 50
    /\ actions[50] # actionLog[1]

\* min(3000 * 1.5^(n-1), 30000), in quarter milliseconds, is d
IsBackoff(d, n) ==
    LET p3 == 3 ^ (n - 1)
        p2 == 2 ^ (n - 1)
    IN  IF Ms(RECONNECT_DELAY) * p3 >= Ms(MAX_RECONNECT_DELAY) * p2
        THEN d = Ms(MAX_RECONNECT_DELAY)
        ELSE d * p2 = Ms(RECONNECT_DELAY) * p3

PendingTimers == { t \in DOMAIN timers : timers[t].st = "pending" }

\* C3: the reconnect timer scheduled by the N-th consecutive failed cycle is
\* scheduled with the delay min(3000 * 1.5^(N-1), 30000), where the N-th
\* failed cycle is the N-th close of the current transport since the last
\* successful open, counted from construction or from the last start().
C3_BackoffSchedule ==
    \A t \in PendingTimers :
        timers[t].nth >= 1 =>
            \/ IsBackoff(timers[t].delay, timers[t].nth)
            \/ IsBackoff(timers[t].delay, timers[t].nthSession)

\* C4: the reconnect timer scheduled when a transport that had opened closes
\* is scheduled with the delay 3000 ms, whatever failures preceded the open.
C4_DelayResetByOpen ==
    \A t \in PendingTimers :
        timers[t].afterOpen => timers[t].delay = Ms(RECONNECT_DELAY)

\* C5: once a streamed initial_state has set state, a fallback bot-state
\* response that resolves later does not change state.
C5_FallbackKeepsStreamedState ==
    [][(stateSrc = "stream" /\ last'.op = "fetchBot" /\ fetches' # fetches)
          => state' = state]_vars

\* C6: after stop() no reconnect timer is pending.
C6_StopCancelsTimer == ~mounted => PendingTimers = { }

\* C7: in a session that was never stopped, a fallback state that arrives
\* before any transport has opened is shown with connected = false, and a
\* snapshot that a transport delivers afterwards is shown with connected = true.
C7_FallbackThenStream ==
    /\ (~everStopped /\ ~everOpened /\ last.op = "fetchBot" /\ last.data # NoState)
          => (~isConnected /\ state = last.data)
    /\ (~everStopped /\ last.op = "initial_state")
          => (isConnected /\ state = last.data)

\* C7 happens: the first transport failed, the fallback set state, a reconnect
\* opened and its snapshot says totalBuys = 7
C7_Witness ==
    /\ ~everStopped
    /\ fellBack
    /\ Len(sock) >= 2
    /\ sock[1].st = "closed"
    /\ last.op = "initial_state"
    /\ isConnected
    /\ state.totalBuys = 7

\* C8: while the client is started, a transport is live or has an event to
\* deliver, or a reconnect timer is pending.
C8_ReconnectNeverLost ==
    (effectOn /\ mounted) =>
        \/ \E i \in DOMAIN sock : sock[i].st # "closed"
        \/ PendingTimers # { }

\* C9: at most one reconnect timer is pending and at most one transport is
\* connecting or open.
C9_OneTimerOneTransport ==
    /\ Cardinality(PendingTimers) <= 1
    /\ Cardinality({ i \in DOMAIN sock : sock[i].st \in { "connecting", "open" } }) <= 1

\* C10: a pong message, and a message of a type the client does not know,
\* leaves state, trades and actions as they were and raises nothing.
C10_UnknownTypeIgnored ==
    [][last'.op \in { "pong", "ping" }
          => /\ state' = state
             /\ trades' = trades
             /\ actions' = actions
             /\ last'.raised = "none"]_vars

\* C10 happens: such a message arrived at a view that holds a state, trades
\* and actions
C10_Witness ==
    /\ last.op \in { "pong", "ping" }
    /\ state # NoState
    /\ trades # << >>
    /\ actions # << >>

\* C11: a frame whose payload does not parse, or parses to a value the switch
\* cannot dispatch, is dropped: state, trades, actions and connected are as
\* they were, the handler lets no exception escape, the transport stays as it
\* was and no reconnect timer is scheduled.
C11_MalformedDropped ==
    [][last'.op = "malformed"
          => /\ state' = state
             /\ trades' = trades
             /\ actions' = actions
             /\ isConnected' = isConnected
             /\ last'.raised \in { "none", "caught" }
             /\ sock' = sock
             /\ timers' = timers]_vars

\* C11 happens: the handler caught the exception of such a frame, at a view
\* that holds a state, trades and actions, on the open current transport
C11_Witness ==
    /\ last.op = "malformed"
    /\ last.raised = "caught"
    /\ state # NoState
    /\ trades # << >>
    /\ actions # << >>
    /\ isConnected
    /\ wsRef # 0
    /\ sock[wsRef].st = "open"

\* C12: a state_update gives every field it names the update's value, keeps
\* every other field of the state, and leaves trades and actions alone; with
\* no prior state it changes nothing and state stays absent.
C12_UpdateMerges ==
    [][last'.op = "state_update"
          => /\ trades' = trades
             /\ actions' = actions
             /\ IF state = NoState
                THEN state' = NoState
                ELSE /\ DOMAIN state' = (DOMAIN state) \cup (DOMAIN last'.data)
                     /\ \A f \in DOMAIN last'.data : state'[f] = last'.data[f]
                     /\ \A f \in (DOMAIN state) \ (DOMAIN last'.data) :
                           state'[f] = state[f]]_vars

\* C12 happens: an update of totalSells alone arrived at a state, whose
\* totalBuys is kept
C12_Witness ==
    /\ last.op = "state_update"
    /\ last.data = [totalSells |-> 4]
    /\ last.before = [totalBuys |-> 7, totalSells |-> 1]
    /\ state = [totalBuys |-> 7, totalSells |-> 4]

\* C13: a state_update whose every field equals the current value of that
\* field leaves state, trades and actions equal to what they were; and the
\* state an update leaves is the state the same update, applied again, leaves.
C13_UpdateIdempotent ==
    [][last'.op = "state_update"
          => /\ (/\ state # NoState
                 /\ \A f \in DOMAIN last'.data :
                       f \in DOMAIN state /\ state[f] = last'.data[f])
                   => (state' = state /\ trades' = trades /\ actions' = actions)
             /\ MergeUpdate(state', last'.data) = state']_vars

\* C13 happens: an update arrived whose every field had the value it names
C13_Witness ==
    /\ last.op = "state_update"
    /\ last.before # NoState
    /\ \A f \in DOMAIN last.data : last.before[f] = last.data[f]
    /\ state = last.before
    /\ trades # << >>

\* C14: an initial_state message makes state, trades and actions the state,
\* the recent trades and the recent actions it carries, and no earlier entry
\* stays; a list it does not carry becomes empty.
C14_SnapshotReplaces ==
    last.op = "initial_state" =>
        /\ state = last.frame.state
        /\ trades = (IF last.frame.recent_trades = Absent
                     THEN << >> ELSE last.frame.recent_trades)
        /\ actions = (IF last.frame.recent_actions = Absent
                      THEN << >> ELSE last.frame.recent_actions)

\* C14 happens: a snapshot without recent trades arrived at a view that held
\* trades and actions, and the trades are gone
C14_Witness ==
    /\ last.op = "initial_state"
    /\ last.held
    /\ last.frame.recent_trades = Absent
    /\ last.frame.recent_actions = << Entry(101), Entry(102) >>
    /\ trades = << >>
    /\ actions = << Entry(101), Entry(102) >>

\* C15: in every reachable state the trades list has at most 50 entries and
\* the actions list has at most 50 entries.
C15_ListsBounded == Len(trades) <= 50 /\ Len(actions) <= 50

\* C16: the two fallback calls are independent: when the body of the bot-state
\* response does not parse and the actions response is a success, the call
\* goes on to merge the actions (it does not end with the actions unread).
C16_FallbackCallsIndependent ==
    [][\A f \in DOMAIN fetches :
          (fetches[f].pc = "botJson" /\ fetches[f].actOk)
             => fetches'[f].pc \in { "botJson", "actJson" }]_vars

\* C17: a fallback response that resolves after stop() changes neither state
\* nor actions.
C17_FallbackDiscardedAfterStop ==
    [][(~mounted /\ last'.op \in { "fetchBot", "fetchActions" })
          => (state' = state /\ actions' = actions)]_vars

\* C18: where a fallback response and a snapshot of the stream are both about
\* to arrive, the state and the actions the view ends with are the same in
\* either order of arrival.
C18_OrderIrrelevant ==
    (/\ mounted
     /\ \E i \in DOMAIN sock : sock[i].st = "open"
     /\ \E f \in DOMAIN fetches : fetches[f].pc = "botJson" /\ fetches[f].actOk)
    => \A b \in FallbackStates, l \in FallbackLists, S \in SnapshotFrames(SnapLists) :
          LET FS == Dispatch(S, ApplyBot(state, b), trades, ApplyActions(actions, l))
              s1 == Dispatch(S, state, trades, actions)
              SF == [state |-> ApplyBot(s1.state, b),
                     actions |-> ApplyActions(s1.actions, l)]
          IN  FS.state = SF.state /\ FS.actions = SF.actions

\* the transport wsRef holds is in one of the phases sts
CurrentIn(sts) == wsRef # 0 /\ sock[wsRef].st \in sts

\* C19: connected is true only while the current transport is open (or has
\* failed and its close event is still to come), and it is true whenever the
\* current transport is open.
C19_ConnectedTracksTransport ==
    /\ isConnected => CurrentIn({ "open", "closing" })
    /\ CurrentIn({ "open" }) => isConnected

\* C20: after stop() no transport is connecting or open and no reconnect timer
\* is pending.
C20_NothingOutlivesStop ==
    ~mounted =>
        /\ \A i \in DOMAIN sock : sock[i].st \notin { "connecting", "open" }
        /\ \A t \in DOMAIN timers : timers[t].st # "pending"

\* C22: a close or an error event of a transport leaves state, trades and
\* actions exactly as they were.
C22_FailureKeepsData ==
    [][last'.op \in { "close", "error" }
          => (state' = state /\ trades' = trades /\ actions' = actions)]_vars

\* C22 happens: the transport of a started client closed, the client is
\* offline and waits to reconnect, and the view holds what it held
C22_Witness ==
    /\ last.op = "close"
    /\ mounted
    /\ ~isConnected
    /\ PendingTimers # { }
    /\ state # NoState
    /\ trades # << >>
    /\ actions # << >>

\* C23: for a log file that holds a list of n entries when the request
\* reads it, /api/actions answers with the last min(n, 50) entries of the
\* file, the most recent first, each with the fields timestamp, type,
\* description and details it has, and no other.
C23_ActionsRouteRecent ==
    (route.endpoint = "actions" /\ route.exists /\ route.file.exists
        /\ route.file.readable /\ route.file.kind = "list")
    => LET log == route.file.entries
           n == Len(log)
           out == route.response.body.actions
       IN  /\ route.response.status = 200
           /\ Len(out) = Min(n, 50)
           /\ \A k \in 1 .. Len(out) :
                 /\ DOMAIN out[k] \subseteq { "timestamp", "type", "description", "details" }
                 /\ \A f \in { "timestamp", "type", "description", "details" } :
                       IF f \in DOMAIN log[n + 1 - k]
                       THEN f \in DOMAIN out[k] /\ out[k][f] = log[n + 1 - k][f]
                       ELSE f \notin DOMAIN out[k]

\* C23 happens: the log has more than 50 entries, with fields the client does
\* not know, and the answer starts with the last entry of the file
C23_Witness ==
    /\ route.endpoint = "actions"
    /\ route.exists
    /\ route.file.exists /\ route.file.readable /\ route.file.kind = "list"
    /\ Len(route.file.entries) = 51
    /\ "id" \in DOMAIN route.file.entries[51]
    /\ Len(route.response.body.actions) = 50
    /\ route.response.body.actions[1].timestamp = 51
    /\ route.response.body.actions[50].timestamp = 2

\* C24: /api/actions answers 200 with an empty list when existsSync finds
\* the log file absent, and 500 when the file is there and the read fails (the
\* file is gone by then, or cannot be read), or what is read is no JSON, or is
\* JSON that is no list.
C24_ActionsRouteMissingOrCorrupt ==
    route.endpoint = "actions" =>
        /\ ~route.exists
              => (route.response.status = 200 /\ route.response.body.actions = << >>)
        /\ (route.exists
               /\ (~route.file.exists \/ ~route.file.readable \/ route.file.kind # "list"))
              => route.response.status = 500

\* C24 happens: the file holds JSON that is no list
C24_Witness ==
    /\ route.endpoint = "actions"
    /\ route.exists
    /\ route.file = TextFile("42")
    /\ route.response.status = 500

\* the state file as read parses: it is there, is read, and holds JSON
Parses(file) ==
    /\ file.exists
    /\ file.readable
    /\ file.kind = "text" => file.text \in { "null", "42", "\"pong\"", "[]" }

\* C25: /api/bot answers 200 with connected = false and state = null when
\* existsSync finds the state file absent; 500 with connected = false and an
\* error description when the file is there and the read or the parse fails;
\* 200 with connected = true and a state that is not null when the file
\* parses.
C25_BotRouteMissingOrCorrupt ==
    route.endpoint = "bot" =>
        LET response == route.response
        IN  /\ ~route.exists
                  => /\ response.status = 200
                     /\ ~response.body.connected
                     /\ response.body.state = JsNull
            /\ (route.exists /\ ~Parses(route.file))
                  => /\ response.status = 500
                     /\ ~response.body.connected
                     /\ "error" \in DOMAIN response.body
            /\ (route.exists /\ Parses(route.file))
                  => /\ response.status = 200
                     /\ response.body.connected
                     /\ "state" \in DOMAIN response.body
                     /\ response.body.state # JsNull

\* the numeric fields of BotState and the properties of the file they are
\* read from: the counters and volumes, and the fields that may be null
CounterFields ==
    [totalBuys |-> "total_buys", totalSells |-> "total_sells",
     totalBuyVolume |-> "total_buy_volume", totalSellVolume |-> "total_sell_volume",
     lastCreatorRewardsAvailable |-> "last_creator_rewards_available",
     creatorRewards |-> "creator_rewards", totalAnalyses |-> "total_analyses"]
NullableFields ==
    [lastPrice |-> "last_price", highestPrice |-> "highest_price",
     lowestPrice |-> "lowest_price", lastMarketCap |-> "last_market_cap",
     lastHolderCount |-> "last_holder_count", startTime |-> "start_time"]

\* a request of /api/bot was answered with a state, from a file that holds an object
ServedState ==
    /\ route.endpoint = "bot"
    /\ route.exists
    /\ route.response.status = 200
    /\ route.response.body.connected
    /\ route.file.kind = "object"

\* C26, as claimed: every numeric field of BotState whose property is absent
\* from the state file is 0 in the state of the response: the counters and
\* volumes, and lastPrice, highestPrice, lowestPrice, lastMarketCap,
\* lastHolderCount and startTime as well.
C26_AbsentNumericIsZero ==
    ServedState =>
        \A fields \in { CounterFields, NullableFields } : \A f \in DOMAIN fields :
            fields[f] \notin DOMAIN route.file.object
               => /\ f \in DOMAIN route.response.body.state
                  /\ route.response.body.state[f] = 0

\* C26, amended: every counter and volume whose property is absent from the
\* state file is 0 in the state of the response; lastPrice, highestPrice,
\* lowestPrice, lastMarketCap, lastHolderCount and startTime, when their
\* property is absent from the file, are absent from the state of the response.
C26_AbsentCounterIsZero ==
    ServedState =>
        /\ \A f \in DOMAIN CounterFields :
              CounterFields[f] \notin DOMAIN route.file.object
                 => /\ f \in DOMAIN route.response.body.state
                    /\ route.response.body.state[f] = 0
        /\ \A f \in DOMAIN NullableFields :
              NullableFields[f] \notin DOMAIN route.file.object
                 => f \notin DOMAIN route.response.body.state

\* C26 happens: the file has neither total_buys nor last_price, and the
\* state has totalBuys = 0 and no lastPrice
C26_Witness ==
    /\ ServedState
    /\ "total_buys" \notin DOMAIN route.file.object
    /\ "last_price" \notin DOMAIN route.file.object
    /\ "start_time" \in DOMAIN route.file.object
    /\ route.response.body.state.totalBuys = 0
    /\ "lastPrice" \notin DOMAIN route.response.body.state
    /\ route.response.body.state.startTime = 3

\* C27: the close event of a transport that is not the current one leaves
\* connected as it was and schedules no reconnect timer.
C27_StaleCloseIgnored ==
    [][\A i \in DOMAIN sock :
          (i # wsRef /\ last'.op = "close" /\ sock[i].st # "closed"
              /\ sock'[i].st = "closed")
             => (isConnected' = isConnected /\ timers' = timers)]_vars

\* C28: after stop(), and until the next start(), no callback of a transport
\* (open, message, close, error) changes connected, state, trades, actions or
\* the error.
C28_StoppedViewFrozen ==
    [][(~mounted /\ last'.op \in { "open", "unmounted", "close", "error" })
          => view' = view]_vars

\* the entries of a list
Entries(list) == { list[k] : k \in 1 .. Len(list) }

\* C29: whenever the actions of the view, kept most recent first, are not
\* empty, the entries the NeuralStream renders include the most recent
\* action; with more than 15 actions they are the 15 most recent ones.
C29_StreamShowsNewest ==
    actions # << >> =>
        /\ actions[1] \in Entries(Rendered(actions))
        /\ Len(actions) > 15
              => Entries(Rendered(actions)) = { actions[k] : k \in 1 .. 15 }

\* C30: in useDexScreener, loading is true exactly while a call of refetch
\* awaits its fetch.
C30_LoadingWhileInFlight == dex.loading <=> dex.fetches > 0

====
